---- MODULE Spec2Model ----
(***************************************************************************)
(* Task management core of rococo-sample-backend: the Task entity and its  *)
(* validation (common/models/task.py), the repository's filter builders    *)
(* (common/repositories/task.py), the service operations                   *)
(* (common/services/task.py) and the HTTP handlers of flask/app/views/     *)
(* task.py.  A Python Optional value is a sequence of length at most one:  *)
(* None is << >> and a present value x is << x >>.  A Python str is a      *)
(* sequence of one-character strings where its length or its whitespace    *)
(* matters (title), and a TLA+ string elsewhere.                           *)
(***************************************************************************)
EXTENDS Integers, Sequences, FiniteSets, TLC

VARIABLES store, now, last, ops

vars == <<store, now, last, ops>>

\* ---------------------------------------------------------------- bounds
MaxTasks == 2
MaxClock == 1
MaxOps == 3

\* ------------------------------------------------------ program constants
MaxTitleLen == 255

ValidPriorities == {"low", "medium", "high", "urgent"}

DefaultPriority == "medium"

NotFoundStatus == 404

NotFoundMessage == "Task not found"

\* ----------------------------------------------------------- Python values
None == << >>

Some(x) == << x >>

IsSpace(c) == c = " "

\* Python truthiness of an Optional[str]: None and the empty string are falsy
Falsy(o) == o = None \/ o[1] = ""

\* the same for a title, a sequence of characters
FalsyTitle(o) == o = None \/ o[1] = << >>

RECURSIVE LStrip(_)
LStrip(s) == IF s = << >> THEN s
             ELSE IF IsSpace(Head(s)) THEN LStrip(Tail(s)) ELSE s

RECURSIVE RStrip(_)
RStrip(s) == IF s = << >> THEN s
             ELSE IF IsSpace(s[Len(s)]) THEN RStrip(SubSeq(s, 1, Len(s) - 1)) ELSE s

\* str.strip(): leading and trailing whitespace removed
Strip(s) == RStrip(LStrip(s))

Rep(c, n) == [i \in 1..n |-> c]

\* ------------------------------------------------------------ Task entity
\* Task(...) as the service constructs it; entity_id is assigned at
\* construction and is fresh.
NewTask(eid, person_id, title, description, due_date, priority) ==
    [entity_id |-> eid, person_id |-> person_id, title |-> title,
     description |-> description, due_date |-> due_date, priority |-> priority,
     is_completed |-> FALSE, completed_on |-> None, active |-> TRUE]

\* a bug: the length test rejects 255 characters
TitleErrorsOffByOne(t) ==
    IF FalsyTitle(t.title)
        THEN << "Title is required and must be a string" >>
    ELSE IF Len(Strip(t.title[1])) = 0
        THEN << "Title cannot be empty" >>
    ELSE IF Len(t.title[1]) >= MaxTitleLen
        THEN << "Title cannot exceed 255 characters" >>
    ELSE << >>

TitleErrors(t) ==
    IF FalsyTitle(t.title)
        THEN << "Title is required and must be a string" >>
    ELSE IF Len(Strip(t.title[1])) = 0
        THEN << "Title cannot be empty" >>
    ELSE IF Len(t.title[1]) > MaxTitleLen
        THEN << "Title cannot exceed 255 characters" >>
    ELSE << >>

PriorityErrors(t) ==
    IF t.priority # None /\ t.priority[1] # "" /\ t.priority[1] \notin ValidPriorities
        THEN << "Priority must be one of: low, medium, high, urgent" >>
    ELSE << >>

PersonErrors(t) ==
    IF t.person_id = ""
        THEN << "Person ID is required and must be a string" >>
    ELSE << >>

\* validate_task: the list of violations; it raises ModelValidationError
\* when the list is not empty
ValidateTask(t) == TitleErrors(t) \o PriorityErrors(t) \o PersonErrors(t)

\* ------------------------------------------------------- persistence layer
\* save(entity): insert-or-update by identity
Save(st, t) ==
    IF t.entity_id \in 1..Len(st) THEN [st EXCEPT ![t.entity_id] = t]
    ELSE Append(st, t)

\* a record matches conditions, a mapping of field names to values, when it
\* holds each value under its name
Matches(t, conditions) == \A k \in DOMAIN conditions : t[k] = conditions[k]

\* get_many(conditions): every record matching the exact-match conditions
GetMany(st, conditions) == SelectSeq(st, LAMBDA t : Matches(t, conditions))

\* get_one(conditions): the single match, or None
GetOne(st, conditions) ==
    LET m == GetMany(st, conditions) IN IF m = << >> THEN None ELSE Some(m[1])

\* -------------------------------------------------------- Task repository
\* a bug: the listing forgets the active condition
GetByPersonIdWithInactive(st, person_id, status_filter) ==
    LET conditions == [person_id |-> person_id]
    IN IF status_filter = Some("completed")
           THEN GetMany(st, conditions @@ [is_completed |-> TRUE])
       ELSE IF status_filter = Some("incomplete")
           THEN GetMany(st, conditions @@ [is_completed |-> FALSE])
       ELSE GetMany(st, conditions)

GetByPersonId(st, person_id, status_filter) ==
    LET conditions == [person_id |-> person_id, active |-> TRUE]
    IN IF status_filter = Some("completed")
           THEN GetMany(st, conditions @@ [is_completed |-> TRUE])
       ELSE IF status_filter = Some("incomplete")
           THEN GetMany(st, conditions @@ [is_completed |-> FALSE])
       ELSE GetMany(st, conditions)

\* a bug: the lookup forgets the owner condition
GetByIdAndPersonAnyOwner(st, task_id, person_id) ==
    GetOne(st, [entity_id |-> task_id, active |-> TRUE])

GetByIdAndPerson(st, task_id, person_id) ==
    GetOne(st, [entity_id |-> task_id, person_id |-> person_id, active |-> TRUE])

\* ----------------------------------------------------------- Task service
\* What a service call leaves behind: how it ended (outcome "ok", or the
\* exception raised), the value returned, the store afterwards, the task
\* states validate_task accepted and the task states handed to save, in order.
Result(outcome, status_code, errors, ret, st, before, validated, saved) ==
    [outcome |-> outcome, status_code |-> status_code, errors |-> errors,
     ret |-> ret, store |-> st, before |-> before,
     validated |-> validated, saved |-> saved]

Ok(ret, st, before, validated, saved) ==
    Result("ok", None, << >>, ret, st, before, validated, saved)

\* raise APIException("Task not found", status_code=404)
TaskNotFound(st) ==
    Result("APIException", Some(NotFoundStatus), << NotFoundMessage >>, None, st,
           None, << >>, << >>)

\* raise ModelValidationError(errors)
ValidationFailed(st, before, errors) ==
    Result("ModelValidationError", None, errors, None, st, before, << >>, << >>)

CreateTaskOp(st, person_id, title, description, due_date, priority) ==
    LET task == NewTask(Len(st) + 1, person_id, title, description, due_date, priority)
        errors == ValidateTask(task)
    IN IF errors # << >> THEN ValidationFailed(st, None, errors)
       ELSE Ok(Some(task), Save(st, task), None, << task >>, << task >>)

GetTasksOp(st, person_id, status_filter) ==
    Ok(GetByPersonId(st, person_id, status_filter), st, None, << >>, << >>)

GetTaskByIdOp(st, task_id, person_id) ==
    LET task == GetByIdAndPerson(st, task_id, person_id)
    IN IF task = None THEN TaskNotFound(st)
       ELSE Ok(task, st, None, << >>, << >>)

\* the field assignments of update_task on the fetched task
ApplyTitle(task, f) ==
    IF f.title # None THEN [task EXCEPT !.title = f.title] ELSE task

\* a bug: `if description:` in place of `if description is not None:`
ApplyDescriptionIfTruthy(task, f) ==
    IF ~Falsy(f.description) THEN [task EXCEPT !.description = f.description] ELSE task

ApplyDescription(task, f) ==
    IF f.description # None THEN [task EXCEPT !.description = f.description] ELSE task

ApplyDueDate(task, f) ==
    IF f.due_date # None THEN [task EXCEPT !.due_date = f.due_date] ELSE task

ApplyPriority(task, f) ==
    IF f.priority # None THEN [task EXCEPT !.priority = f.priority] ELSE task

\* a bug: completed_on is not cleared when is_completed becomes false
ApplyIsCompletedKeepStamp(task, f, clock) ==
    IF f.is_completed # None
        THEN [task EXCEPT !.is_completed = f.is_completed[1],
                          !.completed_on = IF f.is_completed[1] THEN Some(clock)
                                           ELSE task.completed_on]
    ELSE task

\* a bug: completed_on is stamped only when the stored value was false
ApplyIsCompletedOnTransition(task, f, clock) ==
    IF f.is_completed # None
        THEN [task EXCEPT !.is_completed = f.is_completed[1],
                          !.completed_on = IF f.is_completed[1]
                                               THEN (IF task.is_completed
                                                         THEN task.completed_on
                                                     ELSE Some(clock))
                                           ELSE None]
    ELSE task

ApplyIsCompleted(task, f, clock) ==
    IF f.is_completed # None
        THEN [task EXCEPT !.is_completed = f.is_completed[1],
                          !.completed_on = IF f.is_completed[1] THEN Some(clock) ELSE None]
    ELSE task

ApplyUpdate(task, f, clock) ==
    ApplyIsCompleted(
        ApplyPriority(ApplyDueDate(ApplyDescription(ApplyTitle(task, f), f), f), f),
        f, clock)

\* a bug: the modified task reaches the store before it is validated
UpdateTaskOpSaveFirst(st, clock, task_id, person_id, f) ==
    LET got == GetTaskByIdOp(st, task_id, person_id)
    IN IF got.outcome # "ok" THEN got
       ELSE LET task == ApplyUpdate(got.ret[1], f, clock)
                errors == ValidateTask(task)
            IN IF errors # << >> THEN ValidationFailed(Save(st, task), got.ret, errors)
               ELSE Ok(Some(task), Save(st, task), got.ret, << task >>, << task >>)

UpdateTaskOp(st, clock, task_id, person_id, f) ==
    LET got == GetTaskByIdOp(st, task_id, person_id)
    IN IF got.outcome # "ok" THEN got
       ELSE LET task == ApplyUpdate(got.ret[1], f, clock)
                errors == ValidateTask(task)
            IN IF errors # << >> THEN ValidationFailed(st, got.ret, errors)
               ELSE Ok(Some(task), Save(st, task), got.ret, << task >>, << task >>)

MarkAsCompleteOp(st, clock, task_id, person_id) ==
    LET got == GetTaskByIdOp(st, task_id, person_id)
    IN IF got.outcome # "ok" THEN got
       ELSE LET task == [got.ret[1] EXCEPT !.is_completed = TRUE,
                                           !.completed_on = Some(clock)]
            IN Ok(Some(task), Save(st, task), got.ret, << >>, << task >>)

DeleteTaskOp(st, task_id, person_id) ==
    LET got == GetTaskByIdOp(st, task_id, person_id)
    IN IF got.outcome # "ok" THEN got
       ELSE LET task == [got.ret[1] EXCEPT !.active = FALSE]
            IN Ok(Some(TRUE), Save(st, task), got.ret, << >>, << task >>)

\* ---------------------------------------------------------- HTTP handlers
\* datetime.fromisoformat on the strings the requests carry: the datetime, or
\* None for the ValueError of a malformed string
FromIsoFormat(s) ==
    IF s = "2024-12-31T23:59:59" THEN Some(20241231)
    ELSE IF s = "2025-01-01T00:00:00" THEN Some(20250101)
    ELSE None

Response(status, escaped, called) ==
    [status |-> status, escaped |-> escaped, called |-> called]

\* the exception leaves the handler: no response is built by it
Escapes == Response(None, TRUE, TRUE)

\* TaskList.post on the parsed body: the response and the service result
TaskListPostOp(st, person_id, body) ==
    IF FalsyTitle(body.title)
        THEN [response |-> Response(Some(400), FALSE, FALSE), res |-> Ok(None, st, None, << >>, << >>)]
    ELSE IF ~Falsy(body.due_date) /\ FromIsoFormat(body.due_date[1]) = None
        THEN [response |-> Response(Some(400), FALSE, FALSE), res |-> Ok(None, st, None, << >>, << >>)]
    ELSE LET due_date == IF Falsy(body.due_date) THEN None
                         ELSE FromIsoFormat(body.due_date[1])
             res == CreateTaskOp(st, person_id, body.title, body.description,
                                 due_date, body.priority)
         IN IF res.outcome = "ok"
                THEN [response |-> Response(Some(201), FALSE, TRUE), res |-> res]
            ELSE [response |-> Escapes, res |-> res]

\* except APIException as e: get_failure_response(..., status_code=e.status_code)
\* around a service call that raises nothing else
MapApiException(res) ==
    IF res.outcome = "ok"
        THEN [response |-> Response(Some(200), FALSE, TRUE), res |-> res]
    ELSE IF res.outcome = "APIException"
        THEN [response |-> Response(res.status_code, FALSE, TRUE), res |-> res]
    ELSE [response |-> Escapes, res |-> res]

\* TaskList.get on the `status` query parameter
TaskListGetOp(st, person_id, status) ==
    IF status = "all"
        THEN MapApiException(GetTasksOp(st, person_id, None))
    ELSE IF status \in {"completed", "incomplete"}
        THEN MapApiException(GetTasksOp(st, person_id, Some(status)))
    ELSE [response |-> Response(Some(400), FALSE, FALSE),
          res |-> Ok(None, st, None, << >>, << >>)]

TaskDetailGetOp(st, person_id, task_id) ==
    MapApiException(GetTaskByIdOp(st, task_id, person_id))

TaskDetailDeleteOp(st, person_id, task_id) ==
    MapApiException(DeleteTaskOp(st, task_id, person_id))

TaskCompletePatchOp(st, clock, person_id, task_id) ==
    MapApiException(MarkAsCompleteOp(st, clock, task_id, person_id))

\* TaskDetail.put on the parsed body
TaskDetailPutOp(st, clock, person_id, task_id, body) ==
    IF ~Falsy(body.due_date) /\ FromIsoFormat(body.due_date[1]) = None
        THEN [response |-> Response(Some(400), FALSE, FALSE), res |-> Ok(None, st, None, << >>, << >>)]
    ELSE LET due_date == IF Falsy(body.due_date) THEN None
                         ELSE FromIsoFormat(body.due_date[1])
             res == UpdateTaskOp(st, clock, task_id, person_id,
                                 [body EXCEPT !.due_date = due_date])
         IN IF res.outcome = "ok"
                THEN [response |-> Response(Some(200), FALSE, TRUE), res |-> res]
            ELSE IF res.outcome = "APIException"
                THEN [response |-> Response(res.status_code, FALSE, TRUE), res |-> res]
            ELSE [response |-> Response(Some(400), FALSE, TRUE), res |-> res]

\* ------------------------------------------------------------------ inputs
Persons == {"p1", "p2"}

StatusParams == {"all", "completed", "incomplete", "done"}

TaskIds == 1..(MaxTasks + 1)

StatusFilters == {None, Some("completed"), Some("incomplete")}

CreateTitles ==
    {None, Some(<< >>), Some(<< " " >>), Some(Rep("a", MaxTitleLen)),
     Some(Rep("a", MaxTitleLen + 1))}

Priorities == {Some("low"), Some("medium"), Some("high"), Some("urgent"),
               Some(""), Some("bogus")}

CreateBase ==
    [person_id |-> "p1", title |-> Some(<< "a" >>), description |-> None,
     due_date |-> None, priority |-> Some(DefaultPriority)]

\* create_task's arguments: the base call with one argument varied, and two
\* calls that vary several
CreateInputs ==
    {[CreateBase EXCEPT !.person_id = p] : p \in Persons \cup {""}}
    \cup {[CreateBase EXCEPT !.title = t] : t \in CreateTitles}
    \cup {[CreateBase EXCEPT !.priority = p] : p \in Priorities}
    \cup {[person_id |-> "p2", title |-> Some(<< "a" >>),
           description |-> Some("d"), due_date |-> Some(20241231),
           priority |-> Some("urgent")],
          [person_id |-> "", title |-> None, description |-> None,
           due_date |-> None, priority |-> Some("bogus")]}

UpdateBase ==
    [title |-> None, description |-> None, due_date |-> None, priority |-> None,
     is_completed |-> None]

\* update_task's arguments: no field, one field, and calls with several
UpdateInputs ==
    {UpdateBase,
     [UpdateBase EXCEPT !.title = Some(<< " ", "b" >>)],
     [UpdateBase EXCEPT !.title = Some(<< >>)],
     [UpdateBase EXCEPT !.description = Some("")],
     [UpdateBase EXCEPT !.due_date = Some(20250101)],
     [UpdateBase EXCEPT !.priority = Some("high")],
     [UpdateBase EXCEPT !.priority = Some("")],
     [UpdateBase EXCEPT !.is_completed = Some(TRUE)],
     [UpdateBase EXCEPT !.is_completed = Some(FALSE)],
     [UpdateBase EXCEPT !.title = Some(Rep("a", MaxTitleLen + 1)),
                        !.is_completed = Some(TRUE)],
     [UpdateBase EXCEPT !.priority = Some("bogus"),
                        !.is_completed = Some(FALSE)],
     [UpdateBase EXCEPT !.title = Some(Rep("a", MaxTitleLen)),
                        !.description = Some("e"),
                        !.priority = Some("low"),
                        !.is_completed = Some(TRUE)]}

\* request bodies after parse_request_body; the POST bodies carry a priority
PostBodies ==
    {[title |-> Some(<< "a" >>), description |-> None, due_date |-> None,
      priority |-> Some("high")],
     [title |-> Some(<< "a" >>), description |-> Some("d"),
      due_date |-> Some("2024-12-31T23:59:59"), priority |-> Some("low")],
     [title |-> Some(<< "a" >>), description |-> None,
      due_date |-> Some("tomorrow"), priority |-> Some("medium")],
     [title |-> Some(<< "a" >>), description |-> None, due_date |-> None,
      priority |-> Some("bogus")],
     [title |-> Some(Rep("a", MaxTitleLen + 1)), description |-> None,
      due_date |-> None, priority |-> Some("medium")],
     [title |-> Some(<< " " >>), description |-> None, due_date |-> Some(""),
      priority |-> Some("medium")],
     [title |-> Some(<< >>), description |-> None, due_date |-> None,
      priority |-> Some("medium")],
     [title |-> None, description |-> None, due_date |-> None,
      priority |-> Some("medium")]}

PutBodies ==
    {UpdateBase,
     [UpdateBase EXCEPT !.title = Some(<< "b" >>), !.description = Some("")],
     [UpdateBase EXCEPT !.due_date = Some("2025-01-01T00:00:00")],
     [UpdateBase EXCEPT !.due_date = Some("tomorrow")],
     [UpdateBase EXCEPT !.due_date = Some("")],
     [UpdateBase EXCEPT !.priority = Some("bogus")],
     [UpdateBase EXCEPT !.title = Some(<< " " >>), !.is_completed = Some(TRUE)],
     [UpdateBase EXCEPT !.is_completed = Some(TRUE)],
     [UpdateBase EXCEPT !.is_completed = Some(FALSE)]}

\* ------------------------------------------------------------------- state
\* store: the persisted task records, entity_id = position
\* now:   datetime.now()
\* last:  the last request: what was called with what, and how it ended
\* ops:   the number of requests made
Record(op, task_id, person_id, input, res, response) ==
    [op |-> op, task_id |-> task_id, person_id |-> person_id, input |-> input,
     outcome |-> res.outcome, status_code |-> res.status_code,
     errors |-> res.errors, ret |-> res.ret, before |-> res.before,
     validated |-> res.validated, saved |-> res.saved, response |-> response]

NoResponse == Response(None, FALSE, TRUE)

Init ==
    /\ store = << >>
    /\ now = 0
    /\ ops = 0
    /\ last = Record("init", None, "", None, Ok(None, << >>, None, << >>, << >>),
                     NoResponse)

Done(op, task_id, person_id, input, res, response) ==
    /\ store' = res.store
    /\ last' = Record(op, task_id, person_id, input, res, response)
    /\ ops' = ops + 1
    /\ UNCHANGED now

CreateTask ==
    /\ ops < MaxOps
    /\ Len(store) < MaxTasks
    /\ \E c \in CreateInputs :
          Done("create_task", None, c.person_id, Some(c),
               CreateTaskOp(store, c.person_id, c.title, c.description,
                            c.due_date, c.priority),
               NoResponse)

GetTasks ==
    /\ ops < MaxOps
    /\ \E p \in Persons, sf \in StatusFilters :
          Done("get_tasks", None, p, Some(sf), GetTasksOp(store, p, sf), NoResponse)

GetTaskById ==
    /\ ops < MaxOps
    /\ \E id \in TaskIds, p \in Persons :
          Done("get_task_by_id", Some(id), p, None, GetTaskByIdOp(store, id, p),
               NoResponse)

UpdateTask ==
    /\ ops < MaxOps
    /\ \E id \in TaskIds, p \in Persons, f \in UpdateInputs :
          Done("update_task", Some(id), p, Some(f),
               UpdateTaskOp(store, now, id, p, f), NoResponse)

MarkAsComplete ==
    /\ ops < MaxOps
    /\ \E id \in TaskIds, p \in Persons :
          Done("mark_as_complete", Some(id), p, None,
               MarkAsCompleteOp(store, now, id, p), NoResponse)

DeleteTask ==
    /\ ops < MaxOps
    /\ \E id \in TaskIds, p \in Persons :
          Done("delete_task", Some(id), p, None, DeleteTaskOp(store, id, p),
               NoResponse)

TaskListPost ==
    /\ ops < MaxOps
    /\ Len(store) < MaxTasks
    /\ \E p \in Persons, body \in PostBodies :
          LET r == TaskListPostOp(store, p, body)
          IN Done("POST", None, p, Some(body), r.res, r.response)

TaskDetailPut ==
    /\ ops < MaxOps
    /\ \E id \in TaskIds, p \in Persons, body \in PutBodies :
          LET r == TaskDetailPutOp(store, now, p, id, body)
          IN Done("PUT", Some(id), p, Some(body), r.res, r.response)

TaskListGet ==
    /\ ops < MaxOps
    /\ \E p \in Persons, status \in StatusParams :
          LET r == TaskListGetOp(store, p, status)
          IN Done("GET list", None, p, Some(status), r.res, r.response)

TaskDetailGet ==
    /\ ops < MaxOps
    /\ \E id \in TaskIds, p \in Persons :
          LET r == TaskDetailGetOp(store, p, id)
          IN Done("GET", Some(id), p, None, r.res, r.response)

TaskDetailDelete ==
    /\ ops < MaxOps
    /\ \E id \in TaskIds, p \in Persons :
          LET r == TaskDetailDeleteOp(store, p, id)
          IN Done("DELETE", Some(id), p, None, r.res, r.response)

TaskCompletePatch ==
    /\ ops < MaxOps
    /\ \E id \in TaskIds, p \in Persons :
          LET r == TaskCompletePatchOp(store, now, p, id)
          IN Done("PATCH", Some(id), p, None, r.res, r.response)

\* time passes between requests
Tick ==
    /\ now < MaxClock
    /\ now' = now + 1
    /\ UNCHANGED <<store, last, ops>>

\* the service called directly
Next ==
    \/ CreateTask
    \/ GetTasks
    \/ GetTaskById
    \/ UpdateTask
    \/ MarkAsComplete
    \/ DeleteTask
    \/ Tick

Spec == Init /\ [][Next]_vars

\* the service called through the HTTP handlers
NextHttp ==
    \/ TaskListGet
    \/ TaskListPost
    \/ TaskDetailGet
    \/ TaskDetailPut
    \/ TaskDetailDelete
    \/ TaskCompletePatch
    \/ Tick

SpecHttp == Init /\ [][NextHttp]_vars

\* ------------------------------------------------------------ properties
Stored == 1..Len(store)

\* a request was served in this step
Served == ops' = ops + 1

ByIdOps == {"get_task_by_id", "update_task", "mark_as_complete", "delete_task"}

NotFoundOutcome(l) ==
    /\ l.outcome = "APIException"
    /\ l.status_code = Some(404)
    /\ l.errors = << "Task not found" >>
    /\ l.ret = None
    /\ l.saved = << >>

\* C1: a by-id operation called with a personId other than the task's owner
\* ends in APIException 404 'Task not found' with no data returned and nothing
\* saved, exactly as for an id that does not exist; no listing for a person
\* holds another person's task.
C1_OwnershipIsolation ==
    /\ (/\ last.op \in ByIdOps
        /\ last.task_id[1] \in Stored
        /\ store[last.task_id[1]].person_id # last.person_id)
       => /\ NotFoundOutcome(last)
          /\ LET absent == GetTaskByIdOp(store, Len(store) + 1, last.person_id)
             IN /\ last.outcome = absent.outcome
                /\ last.status_code = absent.status_code
                /\ last.errors = absent.errors
                /\ last.ret = absent.ret
    /\ \A p \in Persons, sf \in StatusFilters :
          LET listed == GetTasksOp(store, p, sf).ret
          IN \A i \in 1..Len(listed) : listed[i].person_id = p
    /\ last.op = "get_tasks"
       => \A i \in 1..Len(last.ret) : last.ret[i].person_id = last.person_id

C1_Witness ==
    /\ last.op \in ByIdOps
    /\ last.task_id[1] \in Stored
    /\ store[last.task_id[1]].person_id # last.person_id
    /\ store[last.task_id[1]].active
    /\ last.outcome = "APIException"

\* C2: once a task is soft-deleted it stays inactive and retained, every later
\* by-id operation on it (a second delete included) reports not-found, and no
\* listing under any status filter contains it.
C2_SoftDeletedStaysHidden ==
    [][/\ Len(store') >= Len(store)
       /\ \A id \in Stored :
             store[id].active = FALSE
             => /\ store'[id] = store[id]
                /\ (Served /\ last'.op \in ByIdOps /\ last'.task_id = Some(id))
                   => NotFoundOutcome(last')
       /\ \A id \in 1..Len(store') :
             store'[id].active = FALSE
             => /\ \A p \in Persons, sf \in StatusFilters :
                      LET listed == GetTasksOp(store', p, sf).ret
                      IN \A i \in 1..Len(listed) : listed[i].entity_id # id
                /\ \A p \in Persons :
                      GetTaskByIdOp(store', id, p).outcome = "APIException"
       /\ (Served /\ last'.op = "delete_task" /\ last'.outcome = "ok")
          => /\ store[last'.task_id[1]].active = TRUE
             /\ store'[last'.task_id[1]].active = FALSE
             /\ last'.ret = Some(TRUE)]_vars

C2_Witness ==
    /\ last.op \in ByIdOps
    /\ last.task_id[1] \in Stored
    /\ store[last.task_id[1]].active = FALSE
    /\ store[last.task_id[1]].person_id = last.person_id
    /\ last.outcome = "APIException"

\* C3: every persisted task has completed_on set if and only if is_completed.
C3_CompletedOnIffCompleted ==
    \A id \in Stored : (store[id].completed_on # None) <=> store[id].is_completed

C3_Witness ==
    /\ last.op = "update_task"
    /\ last.outcome = "ok"
    /\ last.before[1].is_completed
    /\ last.before[1].completed_on # None
    /\ last.input[1].is_completed = Some(FALSE)
    /\ store[last.task_id[1]].completed_on = None

\* C4: a priority outside {low, medium, high, urgent}, the empty string
\* included, given to create or update fails validation and writes nothing,
\* and every persisted priority is one of the four.
C4_PriorityAlwaysValid ==
    /\ (/\ last.op \in {"create_task", "update_task"}
        /\ last.input[1].priority # None
        /\ last.input[1].priority[1] \notin ValidPriorities
        /\ last.outcome # "APIException")
       => (last.outcome = "ModelValidationError" /\ last.saved = << >>)
    /\ \A id \in Stored :
          /\ store[id].priority # None
          /\ store[id].priority[1] \in ValidPriorities

\* C5: every save of the task service is preceded in the same operation by a
\* successful validate_task of the state that is saved.
C5_ValidatedBeforeEverySave ==
    last.saved # << >> => last.validated = last.saved

\* C6: create with a title of 256 or more characters, or an empty or
\* whitespace-only title, fails validation and saves nothing; with a non-blank
\* title of exactly 255 characters and a valid person and priority it succeeds;
\* every persisted title is non-empty and at most 255 characters long.
C6_TitleLengthBoundary ==
    /\ last.op = "create_task"
       => LET c == last.input[1]
          IN /\ (c.title # None /\ Len(c.title[1]) >= 256)
                => (last.outcome = "ModelValidationError" /\ last.saved = << >>)
             /\ (c.title # None /\ \A i \in 1..Len(c.title[1]) : c.title[1][i] = " ")
                => (last.outcome = "ModelValidationError" /\ last.saved = << >>)
             /\ (/\ c.title # None
                 /\ Len(c.title[1]) = 255
                 /\ \E i \in 1..255 : c.title[1][i] # " "
                 /\ c.person_id \in Persons
                 /\ c.priority[1] \in ValidPriorities)
                => /\ last.outcome = "ok"
                   /\ store[Len(store)].title = c.title
                   /\ last.ret = Some(store[Len(store)])
    /\ \A id \in Stored :
          /\ store[id].title # None
          /\ Len(store[id].title[1]) >= 1
          /\ Len(store[id].title[1]) <= 255
          /\ \E i \in 1..Len(store[id].title[1]) : store[id].title[1][i] # " "

C6_Witness ==
    /\ last.op = "create_task"
    /\ last.input[1].title # None
    /\ Len(last.input[1].title[1]) = 255
    /\ last.outcome = "ok"
    /\ Len(store[Len(store)].title[1]) = 255

\* C7: a successful update keeps every field absent from the input (and
\* completed_on when is_completed is absent), never changes person_id, active
\* or the identity, stores every provided field as provided (an empty
\* description included), and touches no other task.
C7_PartialUpdate ==
    [][(Served /\ last'.op = "update_task" /\ last'.outcome = "ok")
       => LET id == last'.task_id[1]
              f == last'.input[1]
              old == store[id]
              new == store'[id]
          IN /\ new.title = (IF f.title = None THEN old.title ELSE f.title)
             /\ new.description =
                   (IF f.description = None THEN old.description ELSE f.description)
             /\ new.due_date = (IF f.due_date = None THEN old.due_date ELSE f.due_date)
             /\ new.priority = (IF f.priority = None THEN old.priority ELSE f.priority)
             /\ new.is_completed =
                   (IF f.is_completed = None THEN old.is_completed
                    ELSE f.is_completed[1])
             /\ f.is_completed = None => new.completed_on = old.completed_on
             /\ new.person_id = old.person_id
             /\ new.active = old.active
             /\ new.entity_id = old.entity_id
             /\ Len(store') = Len(store)
             /\ \A other \in Stored : other # id => store'[other] = store[other]
             /\ last'.ret = Some(new)]_vars

C7_Witness ==
    /\ last.op = "update_task"
    /\ last.outcome = "ok"
    /\ last.input[1].description = Some("")
    /\ last.input[1].title = None
    /\ last.before[1].description = Some("d")
    /\ store[last.task_id[1]].description = Some("")
    /\ store[last.task_id[1]].title = last.before[1].title

\* C8: a successful update with is_completed=true, and a successful
\* markComplete, leave is_completed true and completed_on at the time of the
\* call whatever was stored before; on an already complete task the new stamp
\* is not earlier than the old one and differs from it when the clock advanced.
C8_Restamp ==
    [][(/\ Served
        /\ last'.outcome = "ok"
        /\ \/ last'.op = "mark_as_complete"
           \/ (last'.op = "update_task" /\ last'.input[1].is_completed = Some(TRUE)))
       => LET old == store[last'.task_id[1]]
              new == store'[last'.task_id[1]]
          IN /\ new.is_completed = TRUE
             /\ new.completed_on = Some(now)
             /\ old.is_completed
                => /\ new.completed_on[1] >= old.completed_on[1]
                   /\ old.completed_on[1] < now => new.completed_on # old.completed_on]_vars

C8_Witness ==
    /\ last.op = "update_task"
    /\ last.outcome = "ok"
    /\ last.input[1].is_completed = Some(TRUE)
    /\ last.before[1].is_completed
    /\ store[last.task_id[1]].is_completed
    /\ store[last.task_id[1]].completed_on[1] > last.before[1].completed_on[1]

\* C9: every failure the service raises during POST /task/ becomes a 400
\* failure response of the handler; the exception never escapes it.
C9_PostFailureIs400 ==
    (last.op = "POST" /\ last.response.called /\ last.outcome # "ok")
    => (~last.response.escaped /\ last.response.status = Some(400))

\* C10: an operation that ends in not-found or a validation error issues no
\* save and leaves the store exactly as it was; after an update that fails
\* validation the task fetched at its start is still what is persisted.
C10_FailureAtomicity ==
    [][(Served /\ last'.outcome \in {"APIException", "ModelValidationError"})
       => /\ store' = store
          /\ last'.saved = << >>
          /\ last'.ret = None
          /\ (last'.op = "update_task" /\ last'.outcome = "ModelValidationError")
             => /\ last'.before = Some(store'[last'.task_id[1]])
                /\ GetTaskByIdOp(store', last'.task_id[1], last'.person_id).ret
                      = last'.before]_vars

C10_Witness ==
    /\ last.op = "update_task"
    /\ last.outcome = "ModelValidationError"
    /\ last.input[1].is_completed = Some(TRUE)
    /\ store[last.task_id[1]].is_completed = FALSE
    /\ store[last.task_id[1]].completed_on = None

====
